---- MODULE Spec2Model ----
(***************************************************************************)
(* The XDP fast path of udcn (udcn-ebpf/src/main.rs): packet classifier,   *)
(* PIT, Content Store, Payload Cache and statistics counters.              *)
(*                                                                         *)
(* One invocation of the program handles one frame.  Invocations run       *)
(* concurrently on the shared maps.  Every map helper call (get, insert,   *)
(* remove) is one atomic step.  update_stats is a plain read-modify-write  *)
(* through a raw pointer into the STATS array, so it is a load step        *)
(* followed by a store step.  Code between two accesses of shared state    *)
(* is local to the invocation and is folded into the step of the access    *)
(* that precedes it.                                                       *)
(*                                                                         *)
(* A frame is its length (data_end - data) and the values of the fields    *)
(* the program reads from it; the value of a field is drawn when the       *)
(* program reads it.                                                       *)
(*                                                                         *)
(* The packet codec of udcn-common (hash_name and the serialize and parse  *)
(* functions), which the control plane uses, is modelled on bytes in a     *)
(* specification of its own, CodecSpec, with the offsets the fast path     *)
(* decodes at.                                                             *)
(***************************************************************************)
EXTENDS Integers, Sequences, FiniteSets, TLC

\* ------------------------------------------------------------------ bounds
\* Capacity of the PIT in the model (the program's map holds 1024 entries).
PIT_MAX_ENTRIES == 2
\* Capacity of the Content Store in the model (the program's map holds 512).
CS_MAX_ENTRIES == 2
\* Frames handled in a run with concurrent invocations.
MaxPackets == 3
\* Frames handled in a run whose invocations do not overlap.
SeqMaxPackets == 4
\* Frames handled in a run of well-formed frames that fills the Content
\* Store: Interest and Data for two fingerprints, a second Interest for the
\* first, Interest and Data for a third.
LruMaxPackets == 7
\* Frames handled in a run with concurrent invocations that starts with both
\* maps full.
FillMaxPackets == 3
\* Number of values of a statistics counter in the model (the program's
\* counters are u32 and wrap at 2^32).
COUNTER_MODULUS == 4

\* --------------------------------------------------------------- constants
ETH_P_IP == 2048
IPPROTO_UDP == 17
NDN_UDP_PORT == 6363
TLV_INTEREST == 5
TLV_DATA == 6

XDP_ABORTED == "XDP_ABORTED"
XDP_DROP == "XDP_DROP"
XDP_PASS == "XDP_PASS"
XDP_TX == "XDP_TX"

\* ------------------------------------------------------------------ inputs
Procs == {1, 2}
Fingerprints == 1..(PIT_MAX_ENTRIES + 1)
\* Values of the fields of a frame: IPv4 and ARP, UDP and TCP, the NDN port
\* and the DNS port, Interest, Data and Name.
EthTypes == {ETH_P_IP, 2054}
IpProtocols == {IPPROTO_UDP, 6}
UdpPorts == {NDN_UDP_PORT, 53}
PacketTypes == {TLV_INTEREST, TLV_DATA, 7}
\* The frames of a run whose invocations do not overlap.  The lengths lie on
\* both sides of every length check of try_udcn for a 20-byte IP header: 34
\* (Ethernet + IP), 42 (+ UDP), 44 (+ 2 payload bytes), 52 (+ 10), 54 (+ 12).
SeqFrames == [lens |-> {33, 34, 41, 42, 43, 44, 51, 52, 53, 54},
              eths |-> EthTypes, ihls |-> {5, 6}, protos |-> IpProtocols,
              ports |-> UdpPorts \X UdpPorts, types |-> PacketTypes,
              sizes |-> {11, 12}]
\* The frames of a run with concurrent invocations: a length on each side of
\* every length check the program makes, a pair of ports on each side of the
\* port check.
ConcFrames == [lens |-> {33, 41, 43, 51, 52, 54},
               eths |-> EthTypes, ihls |-> {5}, protos |-> IpProtocols,
               ports |-> {<<53, 53>>, <<53, NDN_UDP_PORT>>},
               types |-> PacketTypes, sizes |-> {11}]
\* The frames of a run that fills the Content Store: well-formed Interest and
\* Data packets on the NDN port, long enough to be decoded.
LruFrames == [lens |-> {54}, eths |-> {ETH_P_IP}, ihls |-> {5},
              protos |-> {IPPROTO_UDP}, ports |-> {<<53, NDN_UDP_PORT>>},
              types |-> {TLV_INTEREST, TLV_DATA}, sizes |-> {11}]

NoVal == -1

\* PIT, CONTENT_STORE, DATA_CACHE, STATS: the four maps of the program (PIT and
\*   DATA_CACHE as their key sets, CONTENT_STORE as its entries in recency
\*   order, STATS as its single PacketStats element).
\* pc, loc: the position and the locals of the invocation of each context.
\* History variables, read by the properties only:
\*   snap: the maps as an observed invocation found them when it started;
\*   hist: per fingerprint, the last decoded packet of the observed invocations;
\*   takers: per fingerprint, the invocations whose PIT.get found the entry
\*     since PIT.insert last wrote it;
\*   wrapped: whether a counter has wrapped around;
\*   started: the number of frames taken up so far;
\*   touched: the fingerprints in the order of their last touch in the
\*     Content Store (a get that hit or an insert), the oldest first.
\* codec: the state of one exchange through the packet codec of udcn-common
\*   (the arguments of a serialize call, the bytes it produced, the buffer a
\*   receiver got and what the parsers and the fast path read from it).
VARIABLES PIT, CONTENT_STORE, DATA_CACHE, STATS, pc, loc, snap, hist, takers, wrapped,
          started, touched, codec

vars == <<PIT, CONTENT_STORE, DATA_CACHE, STATS, pc, loc, snap, hist, takers, wrapped,
          started, touched, codec>>

\* ----------------------------------------------------------------- helpers
\* u32 `+= 1` of a release build.
Inc(x) == (x + 1) % COUNTER_MODULUS

\* The locals of an invocation that has not started.  oob records whether a
\* read went past data_end; port_checked and decoded record how far the
\* classifier got.
IdleLoc == [data_len |-> NoVal, ip_ihl |-> NoVal,
            udp_src_port |-> NoVal, udp_dst_port |-> NoVal, packet_type |-> NoVal,
            payload_len |-> NoVal, name_hash |-> NoVal, content_size |-> NoVal,
            reg |-> NoVal, oob |-> FALSE, port_checked |-> FALSE,
            decoded |-> FALSE, ret |-> "none"]

\* A read of w bytes at offset o from data.
ReadAt(l, o, w) == [l EXCEPT !.oob = @ \/ o + w > l.data_len]

\* Keys of the Content Store, which is kept in recency order: the head is the
\* least recently used entry, the tail the most recently used one.
CsKeys(cs) == {cs[i].name_hash : i \in 1..Len(cs)}

CsIndex(cs, k) == CHOOSE i \in 1..Len(cs) : cs[i].name_hash = k

CsWithout(cs, k) == SelectSeq(cs, LAMBDA e : e.name_hash # k)

\* Mutant: a lookup that takes the entry it finds out of the map.
CsTouchRemoves(cs, k) == CsWithout(cs, k)

\* Mutant: a lookup that leaves the recency order as it was.
CsTouchKeepsOrder(cs, k) == cs

\* LruHashMap::get: a lookup that hits marks the entry as recently used.
CsTouch(cs, k) ==
  IF k \in CsKeys(cs) THEN Append(CsWithout(cs, k), cs[CsIndex(cs, k)]) ELSE cs

\* Mutant: an insert that keeps the entry a key already has.
CsInsertKeepsExisting(cs, e) ==
  IF e.name_hash \in CsKeys(cs) THEN cs
  ELSE IF Len(cs) >= CS_MAX_ENTRIES THEN Append(Tail(cs), e)
  ELSE Append(cs, e)

\* LruHashMap::insert with flags 0: replaces the entry of the key or adds one,
\* evicting the least recently used entry when the map is full.
CsInsertEntry(cs, e) ==
  IF e.name_hash \in CsKeys(cs) THEN Append(CsWithout(cs, e.name_hash), e)
  ELSE IF Len(cs) >= CS_MAX_ENTRIES THEN Append(Tail(cs), e)
  ELSE Append(cs, e)

\* Mutant: an insert that never reports a full map.
PitInsertNeverFull(pit, k) == TRUE

\* Mutant: an insert that takes one new key more than the map holds.
PitInsertOneTooMany(pit, k) == k \in pit \/ Cardinality(pit) <= PIT_MAX_ENTRIES

\* Mutant: an insert that also fails for a key that has an entry when the map
\* is full.
PitInsertNoOverwrite(pit, k) == Cardinality(pit) < PIT_MAX_ENTRIES

\* Mutant: an insert that fails for a key that has an entry.
PitInsertOnlyNew(pit, k) == k \notin pit /\ Cardinality(pit) < PIT_MAX_ENTRIES

\* HashMap::insert with flags 0: fails when the map is full and the key is new.
PitInsertOk(pit, k) == k \in pit \/ Cardinality(pit) < PIT_MAX_ENTRIES

\* Mutant: a lookup that hits for every key.
PitLookupAlwaysHits(pit, k) == TRUE

\* HashMap::get: whether the key has an entry.
PitLookup(pit, k) == k \in pit

\* Mutant: a remove that leaves the entry in the map.
PitRemoveKeeps(pit, k) == pit

\* Mutant: a remove that empties the map.
PitRemoveClears(pit, k) == {}

\* HashMap::remove.
PitRemoveKey(pit, k) == pit \ {k}

ZeroStats == [interest_received |-> 0, data_received |-> 0, cache_hits |-> 0,
              cache_misses |-> 0, pit_hits |-> 0, forwards |-> 0, drops |-> 0]

StatsFields == {"interest_received", "data_received", "cache_hits",
                "cache_misses", "pit_hits", "forwards", "drops"}

Snapshot == [pit |-> PIT, cs |-> CONTENT_STORE, dc |-> DATA_CACHE, stats |-> STATS,
             touched |-> touched]

NoSnap == [pit |-> {}, cs |-> <<>>, dc |-> {}, stats |-> ZeroStats, touched |-> <<>>]

\* The order of last touch after a touch of fingerprint k.
Touch(log, k) == Append(SelectSeq(log, LAMBDA f : f # k), k)

\* -------------------------------------------------------------------- Init
\* The maps as the loader creates them, and no invocation running.
ProgramInit ==
  /\ PIT = {}
  /\ CONTENT_STORE = <<>>
  /\ DATA_CACHE = {}
  /\ STATS = ZeroStats
  /\ pc = [p \in Procs |-> "idle"]
  /\ loc = [p \in Procs |-> IdleLoc]
  /\ snap = [p \in Procs |-> NoSnap]
  /\ hist = [f \in Fingerprints |-> "none"]
  /\ takers = [f \in Fingerprints |-> {}]
  /\ wrapped = FALSE
  /\ started = 0
  /\ touched = <<>>

\* No exchange through the codec.
NoCodec == [stage |-> "idle"]

Init == ProgramInit /\ codec = NoCodec

\* The locals that are still live: the frame length and the IHL are dead once
\* the packet is decoded and handed to its handler.
Live(l) ==
  IF l.decoded THEN [l EXCEPT !.data_len = NoVal, !.ip_ihl = NoVal] ELSE l

\* ------------------------------------------------------------ update_stats
\* The load half of update_stats(|stats| stats.field += 1).
StatsLoad(p, from, field, to) ==
  /\ pc[p] = from
  /\ loc' = [loc EXCEPT ![p].reg = STATS[field]]
  /\ pc' = [pc EXCEPT ![p] = to]
  /\ UNCHANGED <<PIT, CONTENT_STORE, DATA_CACHE, STATS, snap, hist, takers, wrapped,
               started, touched, codec>>

\* The store half: writes back the loaded value plus one, then the invocation
\* goes on with locals l and program counter to.
StatsStore(p, field, l, to) ==
  /\ STATS' = [STATS EXCEPT ![field] = Inc(loc[p].reg)]
  /\ wrapped' = (wrapped \/ Inc(loc[p].reg) < loc[p].reg)
  /\ loc' = [loc EXCEPT ![p] = Live([l EXCEPT !.reg = NoVal])]
  /\ pc' = [pc EXCEPT ![p] = to]
  /\ UNCHANGED <<PIT, CONTENT_STORE, DATA_CACHE, snap, hist, takers, started, touched, codec>>

\* Mutant: the drop paths return Err(()), which udcn turns into XDP_ABORTED.
FinishDropAsErr(l, r) == [l EXCEPT !.ret = IF r = XDP_DROP THEN XDP_ABORTED ELSE r]

\* A return from try_udcn with action r.
Finish(l, r) == [l EXCEPT !.ret = r]

\* ---------------------------------------------------------------- try_udcn
\* Lines 39-84: length check, ethertype, IHL, protocol, and the reads of the
\* two ports.  The result is the locals after the code, with ret set when the
\* code returned.
ClassifyHeaders(l, eth, ihl, proto) ==
  IF 34 > l.data_len THEN Finish(l, XDP_PASS)
  ELSE LET l1 == ReadAt(l, 12, 2) IN
    IF eth # ETH_P_IP THEN Finish(l1, XDP_PASS)
    ELSE LET l2 == [ReadAt(l1, 14, 1) EXCEPT !.ip_ihl = ihl]
             ip_header_len == ihl * 4 IN
      IF 14 + ip_header_len + 8 > l.data_len THEN Finish(l2, XDP_PASS)
      ELSE LET l3 == ReadAt(l2, 14 + 9, 1) IN
        IF proto # IPPROTO_UDP THEN Finish(l3, XDP_PASS)
        ELSE LET udp_header_start == 14 + ip_header_len
             IN ReadAt(ReadAt(l3, udp_header_start + 2, 2), udp_header_start, 2)

UdpPayloadStart(l) == 14 + l.ip_ihl * 4 + 8

\* Mutant: a port check that looks at the destination port only.
ClassifyPayloadDstOnly(l, src, dst, ptype) ==
  LET l0 == [l EXCEPT !.udp_src_port = src, !.udp_dst_port = dst,
                      !.port_checked = TRUE] IN
  IF dst # NDN_UDP_PORT THEN Finish(l0, XDP_PASS)
  ELSE IF UdpPayloadStart(l) + 2 > l.data_len THEN Finish(l0, XDP_PASS)
  ELSE LET l1 == [ReadAt(l0, UdpPayloadStart(l), 1) EXCEPT !.packet_type = ptype] IN
    IF ptype # TLV_INTEREST /\ ptype # TLV_DATA THEN Finish(l1, XDP_PASS)
    ELSE l1

\* Lines 89-110: port check on the two ports read, 2 payload bytes, packet
\* type.
ClassifyPayload(l, src, dst, ptype) ==
  LET l0 == [l EXCEPT !.udp_src_port = src, !.udp_dst_port = dst,
                      !.port_checked = TRUE] IN
  IF dst # NDN_UDP_PORT /\ src # NDN_UDP_PORT THEN Finish(l0, XDP_PASS)
  ELSE IF UdpPayloadStart(l) + 2 > l.data_len THEN Finish(l0, XDP_PASS)
  ELSE LET l1 == [ReadAt(l0, UdpPayloadStart(l), 1) EXCEPT !.packet_type = ptype] IN
    IF ptype # TLV_INTEREST /\ ptype # TLV_DATA THEN Finish(l1, XDP_PASS)
    ELSE l1

\* Lines 121-170: the length check of the packet type and the decode.
DecodePacket(l, fp, size) ==
  LET l0 == [l EXCEPT !.payload_len = l.data_len - UdpPayloadStart(l)] IN
  IF l.packet_type = TLV_INTEREST THEN
    IF UdpPayloadStart(l) + 12 > l.data_len THEN Finish(l0, XDP_PASS)
    ELSE LET l1 == ReadAt(l0, UdpPayloadStart(l) + 2, 4)
             l2 == ReadAt(l1, UdpPayloadStart(l) + 6, 4)
         IN [l2 EXCEPT !.name_hash = fp, !.decoded = TRUE]
  ELSE
    IF UdpPayloadStart(l) + 10 > l.data_len THEN Finish(l0, XDP_PASS)
    ELSE LET l1 == ReadAt(l0, UdpPayloadStart(l) + 2, 4)
             l2 == ReadAt(l1, UdpPayloadStart(l) + 6, 2)
             l3 == ReadAt(l2, UdpPayloadStart(l) + 8, 4)
         IN [l3 EXCEPT !.name_hash = fp, !.content_size = size, !.decoded = TRUE]

\* Where the invocation goes after a piece of local code.
After(l, to) == IF l.ret # "none" THEN "done" ELSE to

\* What the last decoded packet of a fingerprint was: an Interest that left a
\* PIT entry, a Data packet, or neither.
HistAfter(l) ==
  IF ~l.decoded THEN hist
  ELSE [hist EXCEPT ![l.name_hash] =
          IF l.packet_type = TLV_DATA THEN "data"
          ELSE IF l.ret = XDP_PASS THEN "interest" ELSE "none"]

\* Lines 25-37, load: the previous invocation of the context has returned its
\* action, a frame arrives and the invocation reads the entry counter.  An
\* observed invocation records the shared state it starts from.
Enter(p, n, observed) ==
  /\ pc[p] \in {"idle", "done"}
  /\ started < n
  /\ loc' = [loc EXCEPT ![p] = [IdleLoc EXCEPT !.reg = STATS.drops]]
  /\ snap' = [snap EXCEPT ![p] = IF observed THEN Snapshot ELSE NoSnap]
  /\ hist' = IF observed THEN HistAfter(loc[p]) ELSE hist
  /\ started' = started + 1
  /\ pc' = [pc EXCEPT ![p] = "entry_store"]
  /\ UNCHANGED <<PIT, CONTENT_STORE, DATA_CACHE, STATS, takers, wrapped, touched, codec>>

\* Line 37, store, then lines 39-84.
EntryCount(p, frames) ==
  /\ pc[p] = "entry_store"
  /\ \E len \in frames.lens, eth \in frames.eths, ihl \in frames.ihls,
        proto \in frames.protos :
       LET l == ClassifyHeaders([loc[p] EXCEPT !.data_len = len], eth, ihl, proto) IN
       StatsStore(p, "drops", l, After(l, "port_load"))

\* Line 87, load.
PortLoad(p) == StatsLoad(p, "port_load", "forwards", "port_store")

\* Line 87, store, then lines 89-110.
PortCount(p, frames) ==
  /\ pc[p] = "port_store"
  /\ \E ports \in frames.ports, ptype \in frames.types :
       LET l == ClassifyPayload(loc[p], ports[1], ports[2], ptype) IN
       StatsStore(p, "forwards", l, After(l, "type_load"))

\* Mutant: every packet type is counted as an Interest.
TypeCounterAlwaysInterest(l) == "interest_received"

TypeCounter(l) ==
  IF l.packet_type = TLV_INTEREST THEN "interest_received" ELSE "data_received"

\* Lines 113-119, load.
TypeLoad(p) == StatsLoad(p, "type_load", TypeCounter(loc[p]), "type_store")

\* Lines 113-119, store, then lines 121-170.
TypeCount(p, frames) ==
  /\ pc[p] = "type_store"
  /\ \E fp \in Fingerprints, size \in frames.sizes :
       LET l == DecodePacket(loc[p], fp, size) IN
       StatsStore(p, TypeCounter(loc[p]), l,
                  After(l, IF loc[p].packet_type = TLV_INTEREST
                           THEN "cs_get" ELSE "pit_get"))

\* --------------------------------------------------------- handle_interest
\* Line 178: CONTENT_STORE.get.
CsGet(p) ==
  /\ pc[p] = "cs_get"
  /\ CONTENT_STORE' = CsTouch(CONTENT_STORE, loc[p].name_hash)
  /\ pc' = [pc EXCEPT ![p] = IF loc[p].name_hash \in CsKeys(CONTENT_STORE)
                             THEN "hits_load" ELSE "pit_insert"]
  /\ touched' = IF loc[p].name_hash \in CsKeys(CONTENT_STORE)
                 THEN Touch(touched, loc[p].name_hash) ELSE touched
  /\ UNCHANGED <<PIT, DATA_CACHE, STATS, loc, snap, hist, takers, wrapped, started, codec>>

\* Line 179.
HitsLoad(p) == StatsLoad(p, "hits_load", "cache_hits", "hits_store")

\* Mutant: the hit is counted in cache_misses.
HitsCountAsMiss(p) ==
  /\ pc[p] = "hits_store"
  /\ StatsStore(p, "cache_misses", loc[p], "dc_get")

HitsCount(p) ==
  /\ pc[p] = "hits_store"
  /\ StatsStore(p, "cache_hits", loc[p], "dc_get")

\* Lines 181-183: DATA_CACHE.get.
DcGet(p) ==
  /\ pc[p] = "dc_get"
  /\ IF loc[p].name_hash \in DATA_CACHE
     THEN /\ loc' = [loc EXCEPT ![p] = Finish(@, XDP_TX)]
          /\ pc' = [pc EXCEPT ![p] = "done"]
     ELSE /\ loc' = loc
          /\ pc' = [pc EXCEPT ![p] = "pit_insert"]
  /\ UNCHANGED <<PIT, CONTENT_STORE, DATA_CACHE, STATS, snap, hist, takers, wrapped,
               started, touched, codec>>

\* Lines 188-199: PIT.insert; Pass when it succeeds.
PitInsert(p) ==
  /\ pc[p] = "pit_insert"
  /\ IF PitInsertOk(PIT, loc[p].name_hash)
     THEN /\ PIT' = PIT \cup {loc[p].name_hash}
          /\ takers' = [takers EXCEPT ![loc[p].name_hash] = {}]
          /\ loc' = [loc EXCEPT ![p] = Finish(@, XDP_PASS)]
          /\ pc' = [pc EXCEPT ![p] = "done"]
     ELSE /\ PIT' = PIT
          /\ takers' = takers
          /\ loc' = loc
          /\ pc' = [pc EXCEPT ![p] = "idrop_load"]
  /\ UNCHANGED <<CONTENT_STORE, DATA_CACHE, STATS, snap, hist, wrapped,
               started, touched, codec>>

\* Lines 195-196.
InterestDropLoad(p) == StatsLoad(p, "idrop_load", "drops", "idrop_store")

InterestDropCount(p) ==
  /\ pc[p] = "idrop_store"
  /\ StatsStore(p, "drops", Finish(loc[p], XDP_DROP), "done")

\* ------------------------------------------------------------- handle_data
\* Line 205: PIT.get.
PitGet(p) ==
  /\ pc[p] = "pit_get"
  /\ pc' = [pc EXCEPT ![p] = IF PitLookup(PIT, loc[p].name_hash)
                             THEN "pithits_load" ELSE "ddrop_load"]
  /\ takers' = IF PitLookup(PIT, loc[p].name_hash)
               THEN [takers EXCEPT ![loc[p].name_hash] = @ \cup {p}] ELSE takers
  /\ UNCHANGED <<PIT, CONTENT_STORE, DATA_CACHE, STATS, loc, snap, hist, wrapped,
               started, touched, codec>>

\* Line 206.
PitHitsLoad(p) == StatsLoad(p, "pithits_load", "pit_hits", "pithits_store")

PitHitsCount(p) ==
  /\ pc[p] = "pithits_store"
  /\ StatsStore(p, "pit_hits", loc[p], "pit_remove")

\* Line 208: PIT.remove, its result ignored.
PitRemove(p) ==
  /\ pc[p] = "pit_remove"
  /\ PIT' = PitRemoveKey(PIT, loc[p].name_hash)
  /\ pc' = [pc EXCEPT ![p] = "cs_insert"]
  /\ UNCHANGED <<CONTENT_STORE, DATA_CACHE, STATS, loc, snap, hist, takers, wrapped,
               started, touched, codec>>

\* Mutant: the Data path also stores the payload in DATA_CACHE.
CsInsertStoresPayload(p) ==
  /\ pc[p] = "cs_insert"
  /\ CONTENT_STORE' = CsInsertEntry(CONTENT_STORE,
         [name_hash |-> loc[p].name_hash, data_size |-> loc[p].content_size])
  /\ DATA_CACHE' = DATA_CACHE \cup {loc[p].name_hash}
  /\ touched' = Touch(touched, loc[p].name_hash)
  /\ loc' = [loc EXCEPT ![p] = Finish(@, XDP_PASS)]
  /\ pc' = [pc EXCEPT ![p] = "done"]
  /\ UNCHANGED <<PIT, STATS, snap, hist, takers, wrapped, started, codec>>

\* Lines 210-221: CONTENT_STORE.insert, its result ignored; Pass.
CsInsert(p) ==
  /\ pc[p] = "cs_insert"
  /\ CONTENT_STORE' = CsInsertEntry(CONTENT_STORE,
         [name_hash |-> loc[p].name_hash, data_size |-> loc[p].content_size])
  /\ touched' = Touch(touched, loc[p].name_hash)
  /\ loc' = [loc EXCEPT ![p] = Finish(@, XDP_PASS)]
  /\ pc' = [pc EXCEPT ![p] = "done"]
  /\ UNCHANGED <<PIT, DATA_CACHE, STATS, snap, hist, takers, wrapped, started, codec>>

\* Mutant: the Data path returns Drop without counting it.
DataDropUncounted(p) ==
  /\ pc[p] = "ddrop_store"
  /\ loc' = [loc EXCEPT ![p] = Finish([@ EXCEPT !.reg = NoVal], XDP_DROP)]
  /\ pc' = [pc EXCEPT ![p] = "done"]
  /\ UNCHANGED <<PIT, CONTENT_STORE, DATA_CACHE, STATS, snap, hist, takers, wrapped,
               started, touched, codec>>

\* Lines 224-225.
DataDropLoad(p) == StatsLoad(p, "ddrop_load", "drops", "ddrop_store")

DataDropCount(p) ==
  /\ pc[p] = "ddrop_store"
  /\ StatsStore(p, "drops", Finish(loc[p], XDP_DROP), "done")

Step(p, frames) ==
  \/ EntryCount(p, frames) \/ PortLoad(p) \/ PortCount(p, frames) \/ TypeLoad(p)
  \/ TypeCount(p, frames)
  \/ CsGet(p) \/ HitsLoad(p) \/ HitsCount(p) \/ DcGet(p) \/ PitInsert(p)
  \/ InterestDropLoad(p) \/ InterestDropCount(p)
  \/ PitGet(p) \/ PitHitsLoad(p) \/ PitHitsCount(p) \/ PitRemove(p) \/ CsInsert(p)
  \/ DataDropLoad(p) \/ DataDropCount(p)

\* Concurrent invocations, one per processing context.
Next == \E p \in Procs : Enter(p, MaxPackets, FALSE) \/ Step(p, ConcFrames)

Spec == Init /\ [][Next]_vars

\* Invocations that do not overlap: one processing context handles the frames
\* one after the other.
SeqNext == Enter(1, SeqMaxPackets, TRUE) \/ Step(1, SeqFrames)

SeqSpec == Init /\ [][SeqNext]_vars

\* The same run under the scheduling of XDP: the program is not preempted, so
\* an invocation that can take a step takes it.
FairSeqSpec == SeqSpec /\ WF_vars(Step(1, SeqFrames))

\* Invocations that do not overlap, on enough well-formed frames to fill the
\* Content Store and evict from it.
LruNext == Enter(1, LruMaxPackets, TRUE) \/ Step(1, LruFrames)

LruSpec == Init /\ [][LruNext]_vars

\* The frames that fill both maps, handled one after the other: an Interest
\* and then a Data packet of 11 bytes for each of the fingerprints
\* 1..CS_MAX_ENTRIES, then an Interest for each of 1..PIT_MAX_ENTRIES.
FillFrames == 2 * CS_MAX_ENTRIES + PIT_MAX_ENTRIES

\* The counters after these frames: every frame is passed and counts once in
\* drops and in forwards, every Data packet finds its PIT entry, and the
\* Interests of the second round hit the Content Store where it has their
\* fingerprint.
FillCounts ==
  [interest_received |-> CS_MAX_ENTRIES + PIT_MAX_ENTRIES,
   data_received |-> CS_MAX_ENTRIES,
   cache_hits |-> IF CS_MAX_ENTRIES < PIT_MAX_ENTRIES THEN CS_MAX_ENTRIES
                  ELSE PIT_MAX_ENTRIES,
   cache_misses |-> 0,
   pit_hits |-> CS_MAX_ENTRIES,
   forwards |-> FillFrames,
   drops |-> FillFrames]

\* The program after these frames: both maps full, no invocation running.
FillInit ==
  /\ PIT = 1..PIT_MAX_ENTRIES
  /\ CONTENT_STORE = [i \in 1..CS_MAX_ENTRIES |-> [name_hash |-> i, data_size |-> 11]]
  /\ DATA_CACHE = {}
  /\ STATS = [f \in StatsFields |-> FillCounts[f] % COUNTER_MODULUS]
  /\ pc = [p \in Procs |-> "idle"]
  /\ loc = [p \in Procs |-> IdleLoc]
  /\ snap = [p \in Procs |-> NoSnap]
  /\ hist = [f \in Fingerprints |-> "none"]
  /\ takers = [f \in Fingerprints |-> {}]
  /\ wrapped = (\E f \in StatsFields : FillCounts[f] >= COUNTER_MODULUS)
  /\ started = FillFrames
  /\ touched = [i \in 1..CS_MAX_ENTRIES |-> i]
  /\ codec = NoCodec

\* Concurrent invocations on well-formed frames, starting with both maps full.
FillNext ==
  \E p \in Procs : Enter(p, FillFrames + FillMaxPackets, FALSE) \/ Step(p, LruFrames)

FillSpec == FillInit /\ [][FillNext]_vars

\* ------------------------------------------------------------------- codec
\* udcn-common/src/lib.rs.  A u16 or u32 is the sequence of its bytes in
\* memory order, the least significant byte first.  A buffer is its leading
\* bytes and the number of content bytes that follow them, which no parser
\* looks at.

\* Exclusive or of the n low bits of a and b.
RECURSIVE XorBits(_, _, _)
XorBits(a, b, n) ==
  IF n = 0 THEN 0 ELSE ((a + b) % 2) + 2 * XorBits(a \div 2, b \div 2, n - 1)

\* hash ^= *byte as u32.
U32XorByte(h, byte) == [h EXCEPT ![1] = XorBits(h[1], byte, 8)]

\* u32::wrapping_mul.
U32WrappingMul(a, b) ==
  LET c0 == a[1] * b[1]
      c1 == a[1] * b[2] + a[2] * b[1] + c0 \div 256
      c2 == a[1] * b[3] + a[2] * b[2] + a[3] * b[1] + c1 \div 256
      c3 == a[1] * b[4] + a[2] * b[3] + a[3] * b[2] + a[4] * b[1] + c2 \div 256
  IN <<c0 % 256, c1 % 256, c2 % 256, c3 % 256>>

\* 0x811c9dc5 and 0x01000193.
FNV_OFFSET_BASIS == <<197, 157, 28, 129>>
FNV_PRIME == <<147, 1, 0, 1>>

\* hash_name, after the first n bytes of name.
RECURSIVE HashPrefix(_, _)
HashPrefix(name, n) ==
  IF n = 0 THEN FNV_OFFSET_BASIS
  ELSE U32WrappingMul(U32XorByte(HashPrefix(name, n - 1), name[n]), FNV_PRIME)

hash_name(name) == HashPrefix(name, Len(name))

\* `as u16` of a length.
AsU16(n) == <<n % 256, (n \div 256) % 256>>

\* mem::size_of of the two repr(C) packet structures: the u32 fields are
\* aligned to 4 bytes, so 2 bytes of padding follow the 2-byte header, and 2
\* more follow content_size in DataPacket.
SizeOfInterestPacket == 12
SizeOfDataPacket == 16

\* The memory of an InterestPacket / a DataPacket; pad are its padding bytes.
InterestPacketBytes(pkt, pad) ==
  <<pkt.packet_type, pkt.packet_length, pad[1], pad[2]>> \o pkt.name_hash \o pkt.nonce

DataPacketBytes(pkt, pad) ==
  <<pkt.packet_type, pkt.packet_length, pad[1], pad[2]>> \o pkt.name_hash
    \o pkt.content_size \o <<pad[3], pad[4]>> \o pkt.signature

InterestPacket_new(name_hash, nonce) ==
  [packet_type |-> TLV_INTEREST, packet_length |-> SizeOfInterestPacket % 256,
   name_hash |-> name_hash, nonce |-> nonce]

DataPacket_new(name_hash, content_size, signature) ==
  [packet_type |-> TLV_DATA, packet_length |-> SizeOfDataPacket % 256,
   name_hash |-> name_hash, content_size |-> content_size, signature |-> signature]

\* serialize_interest: the memory of the packet structure, padding included.
\* The padding is not initialised, so its bytes pad are arbitrary.
serialize_interest(name, nonce, pad) ==
  [bytes |-> InterestPacketBytes(InterestPacket_new(hash_name(name), nonce), pad),
   more |-> 0]

\* serialize_data: the memory of the packet structure, then the content.
serialize_data(name, content_len, signature, pad) ==
  [bytes |-> DataPacketBytes(
               DataPacket_new(hash_name(name), AsU16(content_len), signature), pad),
   more |-> content_len]

BufLen(buf) == Len(buf.bytes) + buf.more

\* The first n bytes of a buffer.
BufPrefix(buf, n) ==
  IF n >= BufLen(buf) THEN buf
  ELSE IF n <= Len(buf.bytes) THEN [bytes |-> SubSeq(buf.bytes, 1, n), more |-> 0]
  ELSE [bytes |-> buf.bytes, more |-> n - Len(buf.bytes)]

\* The w bytes at offset o of a buffer that holds at least o + w leading bytes.
BytesAt(buf, o, w) == SubSeq(buf.bytes, o + 1, o + w)

\* Option::None; a Some(packet) is the record of the fields of the packet.
None == [some |-> FALSE]

\* Mutant: a parser that does not look at the type byte.
ParseInterestAnyType(buf) ==
  IF BufLen(buf) < SizeOfInterestPacket THEN None
  ELSE [some |-> TRUE, packet_type |-> buf.bytes[1], packet_length |-> buf.bytes[2],
        name_hash |-> BytesAt(buf, 4, 4), nonce |-> BytesAt(buf, 8, 4)]

\* parse_interest_packet: the buffer read as the memory of an InterestPacket.
parse_interest_packet(buf) ==
  IF BufLen(buf) < SizeOfInterestPacket THEN None
  ELSE IF buf.bytes[1] = TLV_INTEREST
    THEN [some |-> TRUE, packet_type |-> buf.bytes[1], packet_length |-> buf.bytes[2],
          name_hash |-> BytesAt(buf, 4, 4), nonce |-> BytesAt(buf, 8, 4)]
    ELSE None

\* parse_data_packet: the buffer read as the memory of a DataPacket.
parse_data_packet(buf) ==
  IF BufLen(buf) < SizeOfDataPacket THEN None
  ELSE IF buf.bytes[1] = TLV_DATA
    THEN [some |-> TRUE, packet_type |-> buf.bytes[1], packet_length |-> buf.bytes[2],
          name_hash |-> BytesAt(buf, 4, 4), content_size |-> BytesAt(buf, 8, 2),
          signature |-> BytesAt(buf, 12, 4)]
    ELSE None

\* What try_udcn decodes from a UDP payload (main.rs lines 100-159): the type
\* at offset 0; of an Interest of at least 12 bytes the fingerprint at 2 and
\* the nonce at 6; of a Data packet of at least 10 bytes the fingerprint at 2,
\* the size at 6 and the signature at 8, which lies outside a payload shorter
\* than 12 bytes (no value is given to it then).
FastPathDecode(buf) ==
  IF BufLen(buf) < 2 THEN None
  ELSE IF buf.bytes[1] = TLV_INTEREST THEN
    IF BufLen(buf) < 12 THEN None
    ELSE [some |-> TRUE, packet_type |-> buf.bytes[1], name_hash |-> BytesAt(buf, 2, 4),
          nonce |-> BytesAt(buf, 6, 4)]
  ELSE IF buf.bytes[1] = TLV_DATA THEN
    IF BufLen(buf) < 10 THEN None
    ELSE [some |-> TRUE, packet_type |-> buf.bytes[1], name_hash |-> BytesAt(buf, 2, 4),
          content_size |-> BytesAt(buf, 6, 2),
          signature |-> IF BufLen(buf) < 12 THEN <<>> ELSE BytesAt(buf, 8, 4)]
  ELSE None

\* The arguments of the serialize calls: the names "", "a" and "/a"; nonces
\* and signatures; content lengths on both sides of 2^16; padding bytes; and
\* the lengths a received buffer is cut to, on both sides of the two sizes.
Names == {<<>>, <<97>>, <<47, 97>>}
Nonces == {<<68, 51, 34, 17>>, <<0, 0, 0, 0>>}
Signatures == {<<239, 190, 173, 222>>, <<0, 0, 0, 0>>}
ContentLens == {0, 11, 65535, 65536, 65547}
PadBytes == {0, 170}
CutLens == {0, 1, 11, 12, 15, 16}

\* An exchange starts with the arguments of serialize_interest or of
\* serialize_data.
CodecInputs ==
  {[stage |-> "input", kind |-> "interest", name |-> n, nonce |-> x,
    content_len |-> NoVal, signature |-> <<>>] : n \in Names, x \in Nonces}
  \cup
  {[stage |-> "input", kind |-> "data", name |-> n, nonce |-> <<>>,
    content_len |-> c, signature |-> g] :
      n \in Names, c \in ContentLens, g \in Signatures}

CodecInit == ProgramInit /\ codec \in CodecInputs

\* send_interest (udcn/src/main.rs line 115): serialize_interest.
EncodeInterest ==
  /\ codec.stage = "input"
  /\ codec.kind = "interest"
  /\ \E pad \in [1..2 -> PadBytes] :
       codec' = [stage |-> "wire", kind |-> codec.kind, name |-> codec.name,
                 nonce |-> codec.nonce, content_len |-> codec.content_len,
                 signature |-> codec.signature,
                 wire |-> serialize_interest(codec.name, codec.nonce, pad)]
  /\ UNCHANGED <<PIT, CONTENT_STORE, DATA_CACHE, STATS, pc, loc, snap, hist, takers,
                 wrapped, started, touched>>

\* serve_data (udcn/src/main.rs line 146): serialize_data.
EncodeData ==
  /\ codec.stage = "input"
  /\ codec.kind = "data"
  /\ \E pad \in [1..4 -> PadBytes] :
       codec' = [stage |-> "wire", kind |-> codec.kind, name |-> codec.name,
                 nonce |-> codec.nonce, content_len |-> codec.content_len,
                 signature |-> codec.signature,
                 wire |-> serialize_data(codec.name, codec.content_len,
                                         codec.signature, pad)]
  /\ UNCHANGED <<PIT, CONTENT_STORE, DATA_CACHE, STATS, pc, loc, snap, hist, takers,
                 wrapped, started, touched>>

\* A receiver gets the bytes whole, or cut short, or with another first byte,
\* and hands them to parse_interest_packet, to parse_data_packet and, as the
\* UDP payload of a frame, to the fast path.
Decode ==
  /\ codec.stage = "wire"
  /\ \E n \in CutLens \cup {BufLen(codec.wire)}, first \in {NoVal, 7} :
       LET cut == BufPrefix(codec.wire, n)
           buf == IF first = NoVal \/ cut.bytes = <<>> THEN cut
                  ELSE [cut EXCEPT !.bytes[1] = first]
       IN codec' = [stage |-> "parsed", kind |-> codec.kind, name |-> codec.name,
                    nonce |-> codec.nonce, content_len |-> codec.content_len,
                    signature |-> codec.signature, wire |-> codec.wire,
                    buf |-> buf,
                    interest |-> parse_interest_packet(buf),
                    data |-> parse_data_packet(buf),
                    fast |-> FastPathDecode(buf)]
  /\ UNCHANGED <<PIT, CONTENT_STORE, DATA_CACHE, STATS, pc, loc, snap, hist, takers,
                 wrapped, started, touched>>

CodecNext == EncodeInterest \/ EncodeData \/ Decode

CodecSpec == CodecInit /\ [][CodecNext]_vars

\* ================================================================== claims
\* The invocation of the single processing context of SeqSpec has returned.
Returned == pc[1] = "done"

\* The frame it handled was decoded as an Interest / as a Data packet.
HandledInterest == Returned /\ loc[1].decoded /\ loc[1].packet_type = TLV_INTEREST

HandledData == Returned /\ loc[1].decoded /\ loc[1].packet_type = TLV_DATA

\* The set of entries of a Content Store, whatever their recency order.
CsEntries(cs) == {cs[i] : i \in 1..Len(cs)}

\* C1: in a run whose invocations do not overlap, a Data packet for F that is
\* the next decoded packet for F after an Interest that left a PIT entry
\* returns Pass, increments pit_hits by one and leaves no PIT entry for F; a
\* Data packet for F whose previous decoded packet for F was a Data packet
\* returns Drop and leaves pit_hits as it was.
C1_RoundTrip ==
  HandledData =>
    LET F == loc[1].name_hash IN
    /\ hist[F] = "interest" =>
         /\ loc[1].ret = XDP_PASS
         /\ STATS.pit_hits = Inc(snap[1].stats.pit_hits)
         /\ F \notin PIT
    /\ hist[F] = "data" =>
         /\ loc[1].ret = XDP_DROP
         /\ STATS.pit_hits = snap[1].stats.pit_hits

\* Interest for F, Data for F (a PIT hit), then a second Data for F, dropped.
C1_Witness ==
  /\ HandledData
  /\ hist[loc[1].name_hash] = "data"
  /\ loc[1].ret = XDP_DROP
  /\ STATS.pit_hits = 1
  /\ STATS.interest_received = 1
  /\ STATS.data_received = 2

\* C2: the find-and-remove of the Data path is atomic: of the invocations that
\* process a Data packet for F, at most one finds the PIT entry that the last
\* Interest for F inserted (and counts a PIT hit, upserts the Content Store
\* and returns Pass for it).
C2_AtomicTake == \A f \in Fingerprints : Cardinality(takers[f]) <= 1

\* C3: every byte the program reads lies inside [data, data_end).
C3_ReadsInBounds == \A p \in Procs : ~loc[p].oob

\* The end of the last field the decode of a packet type reads, from the start
\* of the UDP payload: the nonce of an Interest (line 133), the signature of a
\* Data packet (line 157).
FieldsEnd(ptype) == IF ptype = TLV_INTEREST THEN 6 + 4 ELSE 8 + 4

\* The frame of an invocation is shorter than a classification threshold: the
\* Ethernet and IP headers, the IP header it declares and the UDP header, the
\* 2 bytes of the NDN header, the fields of its packet type.
Truncated(l) ==
  \/ l.data_len # NoVal /\ l.data_len < 34
  \/ l.data_len # NoVal /\ l.ip_ihl # NoVal /\ l.data_len < 14 + l.ip_ihl * 4 + 8
  \/ l.data_len # NoVal /\ l.port_checked /\ l.data_len < UdpPayloadStart(l) + 2
  \/ l.payload_len # NoVal /\ l.payload_len < FieldsEnd(l.packet_type)

\* C4: a frame shorter than a classification threshold returns Pass and leaves
\* the PIT, the Content Store and the Payload Cache as they were.
C4_FailClosed ==
  Returned /\ Truncated(loc[1]) =>
    /\ loc[1].ret = XDP_PASS
    /\ PIT = snap[1].pit
    /\ CONTENT_STORE = snap[1].cs
    /\ DATA_CACHE = snap[1].dc

\* C5: an Interest on the NDN port is decoded whenever its payload holds the
\* 10 bytes of header, fingerprint and nonce; a Data packet is decoded only
\* when its payload holds the 12 bytes of header, fingerprint, size and
\* signature.
C5_DecodeThresholds ==
  Returned /\ loc[1].payload_len # NoVal =>
    /\ loc[1].packet_type = TLV_INTEREST /\ loc[1].payload_len >= FieldsEnd(TLV_INTEREST)
         => loc[1].decoded
    /\ loc[1].packet_type = TLV_DATA /\ loc[1].decoded
         => loc[1].payload_len >= FieldsEnd(TLV_DATA)

\* C6: no step of any run, concurrent invocations included, decreases a
\* statistics counter.
C6_CountersMonotonic == [][\A f \in StatsFields : STATS'[f] >= STATS[f]]_vars

\* C7: in a run whose invocations do not overlap, every packet increases the
\* entry counter (drops) by exactly one whatever its outcome, and every packet
\* that reaches the port check increases forwards by exactly one.
C7_OncePerPacket ==
  Returned =>
    /\ STATS.drops = Inc(snap[1].stats.drops)
    /\ loc[1].port_checked => STATS.forwards = Inc(snap[1].stats.forwards)

\* C7 as amended: a packet increases drops by one when its action is Pass or
\* Reply and by two when its action is Drop (counters wrap at their modulus);
\* a packet that reaches the port check increases forwards by one.
C7_OncePerPacketPlusDrop ==
  Returned =>
    /\ STATS.drops = IF loc[1].ret = XDP_DROP THEN Inc(Inc(snap[1].stats.drops))
                      ELSE Inc(snap[1].stats.drops)
    /\ loc[1].port_checked => STATS.forwards = Inc(snap[1].stats.forwards)

\* A dropped packet, which reached the port check, counted twice in drops, and
\* before it a passed packet counted once.
C7_Witness ==
  /\ Returned
  /\ loc[1].ret = XDP_DROP
  /\ loc[1].port_checked
  /\ snap[1].stats.drops = 1
  /\ STATS.drops = 3
  /\ STATS.forwards = Inc(snap[1].stats.forwards)

\* C8: a frame the classifier does not intercept changes no counter other
\* than drops and, if it reached the port check, forwards.
C8_NotInterceptedCounters ==
  Returned /\ ~loc[1].decoded =>
    /\ \A f \in StatsFields \ {"drops", "forwards"} : STATS[f] = snap[1].stats[f]
    /\ ~loc[1].port_checked => STATS.forwards = snap[1].stats.forwards

\* C9: an Interest for a fingerprint that is not in the PIT, arriving when the
\* PIT is full, returns Drop, leaves the PIT as it was and neither adds an
\* entry to the Content Store nor removes one.
C9_TableFull ==
  HandledInterest /\ loc[1].name_hash \notin snap[1].pit
                  /\ Cardinality(snap[1].pit) = PIT_MAX_ENTRIES =>
    /\ loc[1].ret = XDP_DROP
    /\ PIT = snap[1].pit
    /\ CsEntries(CONTENT_STORE) = CsEntries(snap[1].cs)

\* An Interest dropped at a full PIT.
C9_Witness ==
  /\ HandledInterest
  /\ loc[1].name_hash \notin snap[1].pit
  /\ Cardinality(snap[1].pit) = PIT_MAX_ENTRIES
  /\ loc[1].ret = XDP_DROP

\* C10: a decoded Data packet whose fingerprint has no PIT entry returns Drop,
\* increments data_received and leaves the PIT, the Content Store, the Payload
\* Cache and pit_hits as they were.
C10_UnsolicitedData ==
  HandledData /\ loc[1].name_hash \notin snap[1].pit =>
    /\ loc[1].ret = XDP_DROP
    /\ STATS.data_received = Inc(snap[1].stats.data_received)
    /\ STATS.pit_hits = snap[1].stats.pit_hits
    /\ PIT = snap[1].pit
    /\ CONTENT_STORE = snap[1].cs
    /\ DATA_CACHE = snap[1].dc

\* An unsolicited Data packet dropped while the PIT and the Content Store hold
\* entries of other fingerprints.
C10_Witness ==
  /\ HandledData
  /\ loc[1].name_hash \notin snap[1].pit
  /\ loc[1].ret = XDP_DROP
  /\ snap[1].pit # {}
  /\ snap[1].cs # <<>>

\* The key among keys whose last touch is the oldest in the order log.
LeastRecentlyTouched(log, keys) ==
  log[CHOOSE i \in 1..Len(log) :
        /\ log[i] \in keys
        /\ \A j \in 1..(i - 1) : log[j] \notin keys]

C12_SolicitedData ==
  HandledData /\ loc[1].name_hash \in snap[1].pit =>
    LET F == loc[1].name_hash IN
    /\ loc[1].ret = XDP_PASS
    /\ {e \in CsEntries(CONTENT_STORE) : e.name_hash = F} =
         {[name_hash |-> F, data_size |-> loc[1].content_size]}
    /\ Cardinality(CsKeys(CONTENT_STORE)) = Len(CONTENT_STORE)
    /\ STATS.data_received = Inc(snap[1].stats.data_received)
    /\ STATS.pit_hits = Inc(snap[1].stats.pit_hits)
    /\ F \notin PIT

\* A solicited Data packet that replaced the entry of its fingerprint, which
\* declared another size.
C12_Witness ==
  /\ HandledData
  /\ loc[1].name_hash \in snap[1].pit
  /\ loc[1].ret = XDP_PASS
  /\ \E e \in CsEntries(snap[1].cs) :
       /\ e.name_hash = loc[1].name_hash
       /\ e.data_size # loc[1].content_size
  /\ STATS.pit_hits = 2

\* C13: an Interest for F that is not answered from the Payload Cache and
\* whose PIT insert can succeed (F is pending or the PIT is not full) returns
\* Pass, increments interest_received and forwards by one each, and leaves
\* the PIT as it was plus F: one entry for F, none added if F was pending.
C13_InterestInserted ==
  HandledInterest /\ loc[1].name_hash \notin snap[1].dc
                  /\ (\/ loc[1].name_hash \in snap[1].pit
                      \/ Cardinality(snap[1].pit) < PIT_MAX_ENTRIES) =>
    /\ loc[1].ret = XDP_PASS
    /\ STATS.interest_received = Inc(snap[1].stats.interest_received)
    /\ STATS.forwards = Inc(snap[1].stats.forwards)
    /\ PIT = snap[1].pit \cup {loc[1].name_hash}
    /\ loc[1].name_hash \in snap[1].pit => Cardinality(PIT) = Cardinality(snap[1].pit)

\* An Interest for a pending fingerprint at a full PIT: Pass, and the PIT
\* holds what it held.
C13_Witness ==
  /\ HandledInterest
  /\ loc[1].name_hash \in snap[1].pit
  /\ Cardinality(snap[1].pit) = PIT_MAX_ENTRIES
  /\ loc[1].ret = XDP_PASS
  /\ PIT = snap[1].pit

\* C14: in every reachable state, concurrent invocations included, the
\* Payload Cache is empty and no invocation has returned the Reply action.
C14_PayloadCacheEmpty ==
  /\ DATA_CACHE = {}
  /\ \A p \in Procs : loc[p].ret # XDP_TX

\* An Interest that hit the Content Store, looked its fingerprint up in the
\* Payload Cache and went on to the PIT: Interest, Data and Interest for one
\* fingerprint, handled by one context.
C14_Witness ==
  \E p \in Procs :
    /\ pc[p] = "done"
    /\ \A q \in Procs \ {p} : pc[q] = "idle"
    /\ loc[p].decoded
    /\ loc[p].packet_type = TLV_INTEREST
    /\ loc[p].name_hash \in CsKeys(CONTENT_STORE)
    /\ STATS.cache_hits = 1
    /\ loc[p].ret = XDP_PASS

\* C15: a step that takes the entry of a fingerprint F out of the PIT is the
\* PIT.remove of an invocation that handles a Data packet with fingerprint F;
\* no other step (of an Interest, of a Data packet for another fingerprint,
\* or of no packet at all) removes it.
C15_RemovedOnlyByData ==
  [][\A f \in Fingerprints :
       f \in PIT /\ f \notin PIT' =>
         \E p \in Procs :
           /\ pc[p] = "pit_remove"
           /\ pc'[p] = "cs_insert"
           /\ loc[p].packet_type = TLV_DATA
           /\ loc[p].name_hash = f]_vars

\* A PIT entry that outlived a solicited Data packet for another fingerprint,
\* which took its own entry out.
C15_Witness ==
  /\ HandledData
  /\ loc[1].ret = XDP_PASS
  /\ loc[1].name_hash \in snap[1].pit
  /\ loc[1].name_hash \notin PIT
  /\ \E f \in snap[1].pit : f # loc[1].name_hash /\ f \in PIT

\* One of the two UDP ports of the frame is the NDN port.
PortMatch(l) == l.udp_src_port = NDN_UDP_PORT \/ l.udp_dst_port = NDN_UDP_PORT

\* The locals without the record of the two ports.
WithoutPorts(l) == [l EXCEPT !.udp_src_port = NoVal, !.udp_dst_port = NoVal]

\* C16: of the IPv4/UDP frames that reach the port check, only those with the
\* NDN port as source or destination port are handed to a handler, and those
\* that are not handed over although a port matches are too short or of
\* another packet type; a frame with neither port returns Pass without its
\* packet type being read and leaves the PIT and the Content Store as they
\* were; and the program goes on from the port check in the same way for a
\* frame with only the source port matching as for one with only the
\* destination port matching.
C16_PortFilter ==
  /\ Returned /\ loc[1].port_checked =>
       /\ loc[1].decoded => PortMatch(loc[1])
       /\ PortMatch(loc[1]) /\ ~loc[1].decoded =>
            \/ loc[1].data_len < UdpPayloadStart(loc[1]) + 12
            \/ loc[1].packet_type \notin {TLV_INTEREST, TLV_DATA}
       /\ ~PortMatch(loc[1]) =>
            /\ loc[1].ret = XDP_PASS
            /\ loc[1].packet_type = NoVal
            /\ PIT = snap[1].pit
            /\ CONTENT_STORE = snap[1].cs
  /\ pc[1] = "port_store" =>
       \A ptype \in PacketTypes :
         WithoutPorts(ClassifyPayload(loc[1], NDN_UDP_PORT, 53, ptype)) =
           WithoutPorts(ClassifyPayload(loc[1], 53, NDN_UDP_PORT, ptype))

\* An Interest with only its source port equal to the NDN port, decoded and
\* entered in the PIT.
C16_Witness ==
  /\ HandledInterest
  /\ loc[1].udp_src_port = NDN_UDP_PORT
  /\ loc[1].udp_dst_port # NDN_UDP_PORT
  /\ loc[1].ret = XDP_PASS
  /\ loc[1].name_hash \in PIT
  /\ loc[1].name_hash \notin snap[1].pit

\* The bytes a receiver got are the bytes serialize produced.
Whole == codec.stage = "parsed" /\ codec.buf = codec.wire

\* The value of a u16.
U16Value(bytes) == bytes[1] + 256 * bytes[2]

\* C17: the bytes of serialize_interest are the 10-byte layout
\* [type][length][fingerprint:4][nonce:4], those of serialize_data the 12-byte
\* layout [type][length][fingerprint:4][content_size:2][signature:4] followed
\* by the content, and the fast path decodes from them the fingerprint
\* hash_name(name) and the nonce, size and signature that were encoded.
C17_SameWireEncoding ==
  Whole =>
    IF codec.kind = "interest"
    THEN /\ BufLen(codec.wire) = 10
         /\ codec.fast.some
         /\ codec.fast.name_hash = hash_name(codec.name)
         /\ codec.fast.nonce = codec.nonce
    ELSE /\ BufLen(codec.wire) = 12 + codec.content_len
         /\ codec.fast.some
         /\ codec.fast.name_hash = hash_name(codec.name)
         /\ U16Value(codec.fast.content_size) = codec.content_len % 65536
         /\ codec.fast.signature = codec.signature

\* C18: parse_interest_packet of the bytes of serialize_interest(name, nonce)
\* is a packet with name_hash = hash_name(name) and that nonce;
\* parse_data_packet of the bytes of serialize_data(name, content, signature)
\* is a packet with name_hash = hash_name(name), that signature and
\* content_size = the length of content modulo 2^16; each parser returns None
\* for a buffer shorter than its packet structure and for one whose first
\* byte is not its type.
C18_CodecRoundTrip ==
  codec.stage = "parsed" =>
    /\ Whole /\ codec.kind = "interest" =>
         /\ codec.interest.some
         /\ codec.interest.name_hash = hash_name(codec.name)
         /\ codec.interest.nonce = codec.nonce
    /\ Whole /\ codec.kind = "data" =>
         /\ codec.data.some
         /\ codec.data.name_hash = hash_name(codec.name)
         /\ codec.data.signature = codec.signature
         /\ U16Value(codec.data.content_size) = codec.content_len % 65536
    /\ BufLen(codec.buf) < SizeOfInterestPacket => codec.interest = None
    /\ BufLen(codec.buf) < SizeOfDataPacket => codec.data = None
    /\ BufLen(codec.buf) > 0 /\ codec.buf.bytes[1] # TLV_INTEREST => codec.interest = None
    /\ BufLen(codec.buf) > 0 /\ codec.buf.bytes[1] # TLV_DATA => codec.data = None

\* A Data packet for the name "a" with 65547 bytes of content, parsed back
\* with content_size 11 and the fingerprint 0xe40c292c.
C18_Witness ==
  /\ Whole
  /\ codec.kind = "data"
  /\ codec.name = <<97>>
  /\ codec.content_len = 65547
  /\ codec.data.some
  /\ codec.data.name_hash = <<44, 41, 12, 228>>
  /\ U16Value(codec.data.content_size) = 11

\* C19: an Interest for F whose fingerprint is not in the Payload Cache is
\* handled in the same way whether F is in the Content Store or not: Pass and
\* a PIT entry for F if the insert can succeed, Drop and the PIT as it was if
\* the PIT is full of other fingerprints, the same counters, and every entry
\* of the Content Store kept.  The two cases differ only in that a hit
\* increases cache_hits by one and makes F's entry the most recently used.
C19_HitWithoutPayload ==
  HandledInterest /\ loc[1].name_hash \notin snap[1].dc =>
    LET F == loc[1].name_hash
        hit == F \in CsKeys(snap[1].cs)
        room == F \in snap[1].pit \/ Cardinality(snap[1].pit) < PIT_MAX_ENTRIES
        before == snap[1].stats
    IN /\ loc[1].ret = IF room THEN XDP_PASS ELSE XDP_DROP
       /\ PIT = IF room THEN snap[1].pit \cup {F} ELSE snap[1].pit
       /\ CsEntries(CONTENT_STORE) = CsEntries(snap[1].cs)
       /\ CsWithout(CONTENT_STORE, F) = CsWithout(snap[1].cs, F)
       /\ STATS = [before EXCEPT
                     !.interest_received = Inc(@),
                     !.forwards = Inc(@),
                     !.drops = IF room THEN Inc(@) ELSE Inc(Inc(@)),
                     !.cache_hits = IF hit THEN Inc(@) ELSE @]
       /\ hit => /\ CONTENT_STORE[Len(CONTENT_STORE)].name_hash = F
                 /\ touched[Len(touched)] = F
       /\ ~hit => CONTENT_STORE = snap[1].cs /\ touched = snap[1].touched

\* An Interest that hit the Content Store while the PIT was full of other
\* fingerprints: dropped, its entry kept and moved from the least to the most
\* recently used place.
C19_Witness ==
  /\ HandledInterest
  /\ loc[1].name_hash \in CsKeys(snap[1].cs)
  /\ loc[1].name_hash \notin snap[1].pit
  /\ Cardinality(snap[1].pit) = PIT_MAX_ENTRIES
  /\ loc[1].ret = XDP_DROP
  /\ STATS.cache_hits = Inc(snap[1].stats.cache_hits)
  /\ Len(snap[1].cs) = CS_MAX_ENTRIES
  /\ snap[1].cs[1].name_hash = loc[1].name_hash
  /\ CONTENT_STORE[CS_MAX_ENTRIES].name_hash = loc[1].name_hash

\* C20: in every reachable state, under every interleaving of concurrent
\* invocations, the PIT holds at most PIT_MAX_ENTRIES entries and the Content
\* Store at most CS_MAX_ENTRIES entries, one per fingerprint.
C20_CapacityBounds ==
  /\ Cardinality(PIT) <= PIT_MAX_ENTRIES
  /\ Len(CONTENT_STORE) <= CS_MAX_ENTRIES
  /\ Cardinality(CsKeys(CONTENT_STORE)) = Len(CONTENT_STORE)

\* Both maps were full; a Data packet has since put a fingerprint into the
\* Content Store that was not in it, and the store still holds its maximum.
C20_Witness ==
  /\ Len(CONTENT_STORE) = CS_MAX_ENTRIES
  /\ \E k \in CsKeys(CONTENT_STORE) : k > CS_MAX_ENTRIES
  /\ \A p \in Procs : pc[p] = "done"

\* C21: an Interest for a fingerprint F that is in the PIT, arriving when the
\* PIT is full, returns Pass, leaves the set of pending fingerprints as it
\* was and increases drops by the entry increment only.
C21_OverwriteAtCapacity ==
  HandledInterest /\ loc[1].name_hash \in snap[1].pit
                  /\ Cardinality(snap[1].pit) = PIT_MAX_ENTRIES
                  /\ loc[1].name_hash \notin snap[1].dc =>
    /\ loc[1].ret = XDP_PASS
    /\ PIT = snap[1].pit
    /\ STATS.drops = Inc(snap[1].stats.drops)

\* A full PIT, an Interest for one of its fingerprints passed, and before it
\* an Interest for a fingerprint that was not pending dropped at the full
\* PIT (counted twice in drops).
C21_Witness ==
  /\ HandledInterest
  /\ loc[1].name_hash \in snap[1].pit
  /\ Cardinality(snap[1].pit) = PIT_MAX_ENTRIES
  /\ loc[1].ret = XDP_PASS
  /\ PIT = snap[1].pit
  /\ snap[1].stats.interest_received = 3
  /\ snap[1].stats.drops = 0
  /\ STATS.drops = 1
  /\ wrapped

\* C22: cache_misses is 0 in every state; a decoded Interest whose fingerprint
\* is in the Content Store increases cache_hits by one, and no other packet
\* changes cache_hits.
C22_MissesNeverCounted ==
  /\ STATS.cache_misses = 0
  /\ Returned =>
       STATS.cache_hits =
         IF HandledInterest /\ loc[1].name_hash \in CsKeys(snap[1].cs)
         THEN Inc(snap[1].stats.cache_hits) ELSE snap[1].stats.cache_hits

\* The second Interest that hit the Content Store, after one that missed it:
\* two hits counted, no miss.
C22_Witness ==
  /\ HandledInterest
  /\ loc[1].name_hash \in CsKeys(snap[1].cs)
  /\ STATS.interest_received = 3
  /\ snap[1].stats.cache_hits = 1
  /\ STATS.cache_hits = 2
  /\ STATS.cache_misses = 0

\* C23: no invocation returns the Abort action, whatever the frame and the
\* state of the maps and counters (full PIT and failed inserts included), and
\* every invocation that has started returns.
C23_NeverAborts ==
  /\ [](\A p \in Procs : loc[p].ret \in {"none", XDP_PASS, XDP_DROP, XDP_TX})
  /\ (pc[1] \notin {"idle", "done"} ~> pc[1] = "done")

\* An Interest whose PIT.insert failed at a full PIT has returned Drop.
C23_Witness ==
  /\ HandledInterest
  /\ loc[1].name_hash \notin snap[1].pit
  /\ Cardinality(snap[1].pit) = PIT_MAX_ENTRIES
  /\ PIT = snap[1].pit
  /\ loc[1].ret = XDP_DROP
  /\ loc[1].ret # XDP_ABORTED

\* C24: in every state of a run whose invocations do not overlap and in which
\* no counter has wrapped around, forwards <= drops, interest_received +
\* data_received <= forwards, pit_hits <= data_received and cache_hits <=
\* interest_received.
C24_CounterOrdering ==
  ~wrapped =>
    /\ STATS.forwards <= STATS.drops
    /\ STATS.interest_received + STATS.data_received <= STATS.forwards
    /\ STATS.pit_hits <= STATS.data_received
    /\ STATS.cache_hits <= STATS.interest_received

\* No counter has wrapped; an Interest, the Data packet it solicited and a
\* second Interest, which hit the Content Store, have been counted.
C24_Witness ==
  /\ ~wrapped
  /\ Returned
  /\ STATS.drops = 3
  /\ STATS.forwards = 3
  /\ STATS.interest_received = 2
  /\ STATS.data_received = 1
  /\ STATS.pit_hits = 1
  /\ STATS.cache_hits = 1

====
